---- MODULE Spec2Model ----
(***************************************************************************)
(* Model of the AppleScript runner plugin (src/main.ts): the Done-section  *)
(* extractor, the file-change handler with its suspension points, the      *)
(* external action invocation and the settings the handler reads.          *)
(* Text is modelled by TLA+ strings; a character is a string of length 1.  *)
(***************************************************************************)
EXTENDS FiniteSets, Integers, Sequences, TLC

(***************************************************************************)
(* Bounds                                                                  *)
(***************************************************************************)
MaxLines == 4

MaxTargets == 2

(***************************************************************************)
(* JavaScript string primitives used by the plugin                         *)
(***************************************************************************)
CharAt(s, i) == SubSeq(s, i, i)

\* White space and line terminators that String.prototype.trim strips
\* (restricted to the characters that occur in the model's texts).
WhiteSpace == {" ", "\t", "\n", "\r"}

\* Characters the regular expression atom '.' does not match.
LineTerminators == {"\n", "\r"}

RECURSIVE trimStart(_)
trimStart(s) ==
    IF Len(s) > 0 /\ CharAt(s, 1) \in WhiteSpace THEN trimStart(Tail(s)) ELSE s

RECURSIVE trimEnd(_)
trimEnd(s) ==
    IF Len(s) > 0 /\ CharAt(s, Len(s)) \in WhiteSpace
    THEN trimEnd(SubSeq(s, 1, Len(s) - 1))
    ELSE s

trim(s) == trimEnd(trimStart(s))

startsWith(s, p) == Len(s) >= Len(p) /\ SubSeq(s, 1, Len(p)) = p

includes(s, p) ==
    \E i \in 1..(Len(s) - Len(p) + 1) : SubSeq(s, i, i + Len(p) - 1) = p

\* content.split('\n'): the pieces between line feeds; "" splits to <<"">>.
RECURSIVE splitFrom(_, _, _)
splitFrom(s, i, cur) ==
    IF i > Len(s) THEN <<cur>>
    ELSE IF CharAt(s, i) = "\n" THEN <<cur>> \o splitFrom(s, i + 1, "")
    ELSE splitFrom(s, i + 1, cur \o CharAt(s, i))

split(s) == splitFrom(s, 1, "")

(***************************************************************************)
(* line.match(/\[\[(.*?)\]\]/): leftmost match, lazy quantifier.           *)
(* The result is [found, group]; found = FALSE stands for null.            *)
(***************************************************************************)
NoMatch == [found |-> FALSE, group |-> ""]

\* '.*?' from position j of an attempt that began at start: try the rest of
\* the pattern first, consume one more character only if that fails.
RECURSIVE lazyDot(_, _, _)
lazyDot(line, start, j) ==
    IF j + 1 <= Len(line) /\ SubSeq(line, j, j + 1) = "]]"
    THEN [found |-> TRUE, group |-> SubSeq(line, start + 2, j - 1)]
    ELSE IF j <= Len(line) /\ CharAt(line, j) \notin LineTerminators
    THEN lazyDot(line, start, j + 1)
    ELSE NoMatch

RECURSIVE matchFrom(_, _)
matchFrom(line, i) ==
    IF i + 1 > Len(line) THEN NoMatch
    ELSE IF SubSeq(line, i, i + 1) = "[["
    THEN LET r == lazyDot(line, i, i + 2)
         IN  IF r.found THEN r ELSE matchFrom(line, i + 1)
    ELSE matchFrom(line, i + 1)

\* Variant: a greedy quantifier, /\[\[(.*)\]\]/.
titleMatchGreedy(line) ==
    LET ends(a)  == { b \in (a + 2)..(Len(line) - 1) :
                        /\ SubSeq(line, b, b + 1) = "]]"
                        /\ \A c \in (a + 2)..(b - 1) :
                              CharAt(line, c) \notin LineTerminators }
        starts   == { a \in 1..(Len(line) - 1) :
                        SubSeq(line, a, a + 1) = "[[" /\ ends(a) # {} }
    IN  IF starts = {} THEN NoMatch
        ELSE LET a == CHOOSE x \in starts : \A y \in starts : x <= y
                 b == CHOOSE x \in ends(a) : \A y \in ends(a) : x >= y
             IN  [found |-> TRUE, group |-> SubSeq(line, a + 2, b - 1)]

titleMatch(line) == matchFrom(line, 1)

(***************************************************************************)
(* extractDoneSection: the branches of the loop body                       *)
(***************************************************************************)
DoneMarker == "## Done"

HeadingPrefix == "## "

\* Variant: the marker is matched as a prefix.
IsMarkerLinePrefix(line) == startsWith(trim(line), DoneMarker)

IsMarkerLine(line) == trim(line) = DoneMarker

\* Variant: only a top-level heading ends the section.
IsBreakLineTopLevel(inSection, line) == inSection /\ startsWith(line, "# ")

IsBreakLine(inSection, line) == inSection /\ startsWith(line, HeadingPrefix)

IsTaskLine(inSection, line) ==
    inSection /\ includes(line, "[[") /\ titleMatch(line).found

TaskOf(line) == [title |-> trim(titleMatch(line).group)]

RECURSIVE scanFrom(_, _, _, _)
scanFrom(ls, i, inSection, acc) ==
    IF i > Len(ls) THEN acc
    ELSE IF IsMarkerLine(ls[i]) THEN scanFrom(ls, i + 1, TRUE, acc)
    ELSE IF IsBreakLine(inSection, ls[i]) THEN acc
    ELSE IF IsTaskLine(inSection, ls[i])
    THEN scanFrom(ls, i + 1, inSection, Append(acc, TaskOf(ls[i])))
    ELSE scanFrom(ls, i + 1, inSection, acc)

extractDoneSection(content) == scanFrom(split(content), 1, FALSE, <<>>)

(***************************************************************************)
(* The plugin: settings, the shared lastDoneContent, and the asynchronous  *)
(* callbacks in flight (vault 'modify' events and the manual command).     *)
(***************************************************************************)
Paths == {"A.md", "B.md"}

\* Texts the content-read collaborator can return.
VaultTexts ==
    { "# Board\n- [[A]]",
      "## Done\n- [[A]]",
      "## Done\n- [[B]]\n## Archive\n- [[A]]",
      "## Done\n- [[A]]\n- [[B]]" }

Scripts == {"", "say input"}

CalendarNames == {"Logs", "Work"}

DEFAULT_SETTINGS ==
    [ defaultScript            |-> "",
      enableDoneHeadingTrigger |-> TRUE,
      targetFiles              |-> <<>>,
      calendarName             |-> "Logs" ]

\* Slots for the callbacks that are in flight or were the last to complete.
Handlers == {1, 2}

VARIABLES
    settings,         \* AppleScriptPluginSettings
    storage,          \* the plugin's persisted data (loadData / saveData)
    lastDoneContent,  \* the tasks of the last parse that was stored
    ev,               \* ev[h]: the callback running in slot h
    latest,           \* slot of the callback that completed last (0: none)
    observe,          \* what the history variables record: "none", "reads", "races"
    lastRead,         \* lastRead[f]: text of the last resolved read of f ("": none)
    scanContent,      \* extractDoneSection, step by step: its argument
    lines,            \*   const lines = content.split('\n')
    scanIdx,          \*   index of the line the loop is at
    isDoneSection,    \*   let isDoneSection
    tasks,            \*   let tasks
    taskLine,         \*   taskLine[n]: index of the line that pushed tasks[n]
    scanPc            \*   "call", "loop" or "returned"

pluginVars == <<settings, storage, lastDoneContent, ev, latest>>

scanVars == <<scanContent, lines, scanIdx, isDoneSection, tasks, taskLine, scanPc>>

histVars == <<observe, lastRead>>

vars == <<settings, storage, lastDoneContent, ev, latest, observe, lastRead,
          scanContent, lines, scanIdx, isDoneSection, tasks, taskLine, scanPc>>

NoPayload == [present |-> FALSE, title |-> "", content |-> ""]

IdleEvent ==
    [ pc       |-> "idle",     \* "idle", "read", "exec" or "done"
      kind     |-> "none",     \* "modify" or "command"
      file     |-> "",         \* file.path of the modify event
      reads    |-> 0,          \* calls of app.vault.read made
      readOk   |-> FALSE,      \* the read resolved
      content  |-> "",         \* what it resolved to
      doneData |-> <<>>,       \* extractDoneSection(content)
      calls    |-> <<>>,       \* scripts handed to execAsync, with the payload
      outcome  |-> "none",
      raised   |-> FALSE,      \* the callback's promise was rejected
      pred     |-> 0,          \* slot of the callback it directly followed
      rival    |-> 0,          \* slot that awaited its action when this one read
      seen     |-> <<>>,       \* lastDoneContent as it was when this one read
      prevText |-> "" ]        \* text of the read of the same file before this

InFlight(h) == ev[h].pc \in {"read", "exec"}

Free(h) == ~InFlight(h)

(***************************************************************************)
(* runAppleScript: the script handed to execAsync                          *)
(***************************************************************************)
calendarData(eventData) ==
    "{calendarName:\"" \o settings.calendarName \o "\", summary:\""
        \o eventData.title \o "\", description:\"" \o eventData.content \o "\"}"

\* Variant: the statement and the user script are joined on one line.
composeScriptSameLine(script, eventData) ==
    IF eventData.present
    THEN "set input to " \o calendarData(eventData) \o " " \o script
    ELSE script

composeScript(script, eventData) ==
    IF eventData.present
    THEN "set input to " \o calendarData(eventData) \o "\n" \o script
    ELSE script

\* The command line of execAsync.
osascript(script) == "osascript -e '" \o script \o "'"

execCall(script, eventData) ==
    [ payload |-> eventData,
      script  |-> composeScript(script, eventData),
      command |-> osascript(composeScript(script, eventData)) ]

(***************************************************************************)
(* History recorded when the read of slot h resolves with text c           *)
(***************************************************************************)
RivalAtRead(h) ==
    LET waiting == { g \in Handlers \ {h} :
                       ev[g].pc = "exec" /\ ev[g].kind = "modify" }
    IN  IF observe = "races" /\ waiting # {} THEN CHOOSE g \in waiting : TRUE
        ELSE 0

SeenAtRead(h) == IF observe = "races" THEN lastDoneContent ELSE <<>>

PrevTextAtRead(h) == IF observe = "reads" THEN lastRead[ev[h].file] ELSE ""

ReadRecorded(h, c) ==
    IF observe = "reads" THEN [lastRead EXCEPT ![ev[h].file] = c] ELSE lastRead

(***************************************************************************)
(* Bookkeeping of which callback directly followed which                   *)
(***************************************************************************)
\* Slot h starts a new callback: it follows the latest completed one when
\* nothing else is in flight; callbacks in flight no longer run alone, and
\* a record that h overwrites is no longer anybody's predecessor.
PredAtStart(h) ==
    IF (\A g \in Handlers : Free(g)) /\ latest # 0 /\ latest # h
    THEN latest ELSE 0

Started(h, rec) ==
    [ g \in Handlers |->
        IF g = h THEN rec
        ELSE [ev[g] EXCEPT !.pred  = IF InFlight(g) \/ @ = h THEN 0 ELSE @,
                           !.rival = IF @ = h THEN 0 ELSE @] ]

(***************************************************************************)
(* vault.on('modify') callback and handleFileChange                        *)
(***************************************************************************)
\* Variant: any configured target makes every file monitored.
targetFilesIncludesAny(path) == Len(settings.targetFiles) > 0

targetFilesIncludes(path) ==
    \E i \in 1..Len(settings.targetFiles) : settings.targetFiles[i] = path

\* Variant: the callback calls handleFileChange whatever the trigger
\* setting is.
ModifyEventAlways(h, f) ==
    /\ Free(h)
    /\ LET base == [IdleEvent EXCEPT !.kind = "modify", !.file = f,
                                     !.pred = PredAtStart(h)]
           rec  == IF ~targetFilesIncludes(f)
                   THEN [base EXCEPT !.pc = "done", !.outcome = "ignored"]
                   ELSE [base EXCEPT !.pc = "read", !.reads = 1]
       IN  /\ ev' = Started(h, rec)
           /\ latest' = IF rec.pc = "done" THEN h
                        ELSE IF latest = h THEN 0 ELSE latest
    /\ UNCHANGED <<settings, storage, lastDoneContent, scanVars, histVars>>

\* The event arrives; the callback runs up to its first suspension point.
ModifyEvent(h, f) ==
    /\ Free(h)
    /\ LET base == [IdleEvent EXCEPT !.kind = "modify", !.file = f,
                                     !.pred = PredAtStart(h)]
           rec  == IF ~settings.enableDoneHeadingTrigger
                   THEN [base EXCEPT !.pc = "done", !.outcome = "disabled"]
                   ELSE IF ~targetFilesIncludes(f)
                   THEN [base EXCEPT !.pc = "done", !.outcome = "ignored"]
                   ELSE [base EXCEPT !.pc = "read", !.reads = 1]
       IN  /\ ev' = Started(h, rec)
           /\ latest' = IF rec.pc = "done" THEN h
                        ELSE IF latest = h THEN 0 ELSE latest
    /\ UNCHANGED <<settings, storage, lastDoneContent, scanVars, histVars>>

\* Variant: any difference from the stored sequence counts as growth.
shouldDispatchChanged(doneData) == doneData # <<>> /\ doneData # lastDoneContent

\* Variant: every non-empty parse counts as growth.
shouldDispatchNonEmpty(doneData) == Len(doneData) > 0

\* Variant: '>=' instead of '>' (on a non-empty sequence).
shouldDispatchAtLeast(doneData) ==
    doneData # <<>> /\ Len(doneData) >= Len(lastDoneContent)

\* if (doneData.length > this.lastDoneContent.length)
shouldDispatch(doneData) == Len(doneData) > Len(lastDoneContent)

\* Variant: the first task instead of the last.
latestDoneOfFirst(doneData) == doneData[1]

\* const latestDone = doneData[doneData.length - 1]
latestDoneOf(doneData) == doneData[Len(doneData)]

\* { title: latestDone.title, content: latestDone.title }
payloadOf(latestDone) ==
    [present |-> TRUE, title |-> latestDone.title, content |-> latestDone.title]

\* Variant: 'if (doneData)' is false for an empty array.
ReadResolveSkipsEmpty(h, c) ==
    /\ ev[h].pc = "read"
    /\ LET doneData == extractDoneSection(c)
           base     == [ev[h] EXCEPT !.readOk = TRUE, !.content = c,
                                     !.doneData = doneData,
                                     !.rival = RivalAtRead(h),
                                     !.seen = SeenAtRead(h),
                                     !.prevText = PrevTextAtRead(h)]
       IN  IF shouldDispatch(doneData)
           THEN /\ ev' = [ev EXCEPT ![h] =
                            [base EXCEPT !.pc = "exec",
                              !.calls = Append(@,
                                  execCall(settings.defaultScript,
                                           payloadOf(latestDoneOf(doneData))))]]
                /\ UNCHANGED <<lastDoneContent, latest>>
           ELSE /\ lastDoneContent' =
                     IF doneData # <<>> THEN doneData ELSE lastDoneContent
                /\ ev' = [ev EXCEPT ![h] =
                            [base EXCEPT !.pc = "done", !.outcome = "noDispatch"]]
                /\ latest' = h
    /\ lastRead' = ReadRecorded(h, c)
    /\ UNCHANGED <<settings, storage, scanVars, observe>>

\* Variant: the assignment to lastDoneContent sits inside the 'if'.
ReadResolveStoresOnGrowthOnly(h, c) ==
    /\ ev[h].pc = "read"
    /\ LET doneData == extractDoneSection(c)
           base     == [ev[h] EXCEPT !.readOk = TRUE, !.content = c,
                                     !.doneData = doneData,
                                     !.rival = RivalAtRead(h),
                                     !.seen = SeenAtRead(h),
                                     !.prevText = PrevTextAtRead(h)]
       IN  IF shouldDispatch(doneData)
           THEN /\ ev' = [ev EXCEPT ![h] =
                            [base EXCEPT !.pc = "exec",
                              !.calls = Append(@,
                                  execCall(settings.defaultScript,
                                           payloadOf(latestDoneOf(doneData))))]]
                /\ UNCHANGED <<lastDoneContent, latest>>
           ELSE /\ UNCHANGED lastDoneContent
                /\ ev' = [ev EXCEPT ![h] =
                            [base EXCEPT !.pc = "done", !.outcome = "noDispatch"]]
                /\ latest' = h
    /\ lastRead' = ReadRecorded(h, c)
    /\ UNCHANGED <<settings, storage, scanVars, observe>>

\* await this.app.vault.read(file) resolves with text c; the handler runs on
\* to its end or to the await inside runAppleScript.
ReadResolve(h, c) ==
    /\ ev[h].pc = "read"
    /\ LET doneData == extractDoneSection(c)
           base     == [ev[h] EXCEPT !.readOk = TRUE, !.content = c,
                                     !.doneData = doneData,
                                     !.rival = RivalAtRead(h),
                                     !.seen = SeenAtRead(h),
                                     !.prevText = PrevTextAtRead(h)]
       IN  IF shouldDispatch(doneData)
           THEN /\ ev' = [ev EXCEPT ![h] =
                            [base EXCEPT !.pc = "exec",
                              !.calls = Append(@,
                                  execCall(settings.defaultScript,
                                           payloadOf(latestDoneOf(doneData))))]]
                /\ UNCHANGED <<lastDoneContent, latest>>
           ELSE /\ lastDoneContent' = doneData
                /\ ev' = [ev EXCEPT ![h] =
                            [base EXCEPT !.pc = "done", !.outcome = "noDispatch"]]
                /\ latest' = h
    /\ lastRead' = ReadRecorded(h, c)
    /\ UNCHANGED <<settings, storage, scanVars, observe>>

\* Variant: the catch block resets lastDoneContent.
ReadRejectClears(h) ==
    /\ ev[h].pc = "read"
    /\ ev' = [ev EXCEPT ![h] = [@ EXCEPT !.pc = "done", !.outcome = "readError"]]
    /\ latest' = h
    /\ lastDoneContent' = <<>>
    /\ UNCHANGED <<settings, storage, scanVars, histVars>>

\* The read rejects: caught and logged by handleFileChange.
ReadReject(h) ==
    /\ ev[h].pc = "read"
    /\ ev' = [ev EXCEPT ![h] = [@ EXCEPT !.pc = "done", !.outcome = "readError"]]
    /\ latest' = h
    /\ UNCHANGED <<settings, storage, lastDoneContent, scanVars, histVars>>

(***************************************************************************)
(* The 'run-applescript' command                                           *)
(***************************************************************************)
\* Variant: the command is only available while the trigger is enabled.
RunCommandWhenEnabled(h) ==
    /\ Free(h)
    /\ settings.enableDoneHeadingTrigger
    /\ ev' = Started(h, [IdleEvent EXCEPT !.pc = "exec", !.kind = "command",
                           !.pred = PredAtStart(h),
                           !.calls = <<execCall(settings.defaultScript, NoPayload)>>])
    /\ latest' = IF latest = h THEN 0 ELSE latest
    /\ UNCHANGED <<settings, storage, lastDoneContent, scanVars, histVars>>

RunCommand(h) ==
    /\ Free(h)
    /\ ev' = Started(h, [IdleEvent EXCEPT !.pc = "exec", !.kind = "command",
                           !.pred = PredAtStart(h),
                           !.calls = <<execCall(settings.defaultScript, NoPayload)>>])
    /\ latest' = IF latest = h THEN 0 ELSE latest
    /\ UNCHANGED <<settings, storage, lastDoneContent, scanVars, histVars>>

(***************************************************************************)
(* execAsync settles                                                       *)
(***************************************************************************)
\* Variant: lastDoneContent is not assigned after a dispatch.
ExecResolveNoStore(h) ==
    /\ ev[h].pc = "exec"
    /\ ev' = [ev EXCEPT ![h] =
                [@ EXCEPT !.pc = "done",
                          !.outcome = IF ev[h].kind = "modify"
                                      THEN "dispatched" ELSE "commandOk"]]
    /\ latest' = h
    /\ UNCHANGED <<settings, storage, lastDoneContent, scanVars, histVars>>

\* Variant: after a dispatch lastDoneContent is assigned only when the parse
\* is longer than what is stored by then.
ExecResolveStoresLonger(h) ==
    /\ ev[h].pc = "exec"
    /\ IF ev[h].kind = "modify"
       THEN /\ lastDoneContent' =
                 IF Len(ev[h].doneData) > Len(lastDoneContent)
                 THEN ev[h].doneData ELSE lastDoneContent
            /\ ev' = [ev EXCEPT ![h] =
                        [@ EXCEPT !.pc = "done", !.outcome = "dispatched"]]
       ELSE /\ UNCHANGED lastDoneContent
            /\ ev' = [ev EXCEPT ![h] =
                        [@ EXCEPT !.pc = "done", !.outcome = "commandOk"]]
    /\ latest' = h
    /\ UNCHANGED <<settings, storage, scanVars, histVars>>

\* The process exits with status 0: runAppleScript returns stdout.
ExecResolve(h) ==
    /\ ev[h].pc = "exec"
    /\ IF ev[h].kind = "modify"
       THEN /\ lastDoneContent' = ev[h].doneData
            /\ ev' = [ev EXCEPT ![h] =
                        [@ EXCEPT !.pc = "done", !.outcome = "dispatched"]]
       ELSE /\ UNCHANGED lastDoneContent
            /\ ev' = [ev EXCEPT ![h] =
                        [@ EXCEPT !.pc = "done", !.outcome = "commandOk"]]
    /\ latest' = h
    /\ UNCHANGED <<settings, storage, scanVars, histVars>>

\* Variant: handleFileChange has no catch around runAppleScript.
ExecRejectUncaught(h) ==
    /\ ev[h].pc = "exec"
    /\ ev' = [ev EXCEPT ![h] =
                [@ EXCEPT !.pc = "done",
                          !.outcome = IF ev[h].kind = "modify"
                                      THEN "actionError" ELSE "commandError",
                          !.raised = TRUE]]
    /\ latest' = h
    /\ UNCHANGED <<settings, storage, lastDoneContent, scanVars, histVars>>

\* The process fails: runAppleScript logs and rethrows; handleFileChange
\* catches and logs, the command callback lets the rejection through.
ExecReject(h) ==
    /\ ev[h].pc = "exec"
    /\ IF ev[h].kind = "modify"
       THEN ev' = [ev EXCEPT ![h] =
                     [@ EXCEPT !.pc = "done", !.outcome = "actionError"]]
       ELSE ev' = [ev EXCEPT ![h] =
                     [@ EXCEPT !.pc = "done", !.outcome = "commandError",
                               !.raised = TRUE]]
    /\ latest' = h
    /\ UNCHANGED <<settings, storage, lastDoneContent, scanVars, histVars>>

(***************************************************************************)
(* The settings tab: every onChange / onClick handler stores the new       *)
(* settings with saveSettings.                                             *)
(***************************************************************************)
saveSettings(new) ==
    /\ settings' = new
    /\ storage' = [present |-> TRUE, data |-> new]

SetDefaultScript(value) ==
    /\ value # settings.defaultScript
    /\ saveSettings([settings EXCEPT !.defaultScript = value])
    /\ UNCHANGED <<lastDoneContent, ev, latest, scanVars, histVars>>

SetEnableDoneHeadingTrigger(value) ==
    /\ value # settings.enableDoneHeadingTrigger
    /\ saveSettings([settings EXCEPT !.enableDoneHeadingTrigger = value])
    /\ UNCHANGED <<lastDoneContent, ev, latest, scanVars, histVars>>

SetTargetFile(index, value) ==
    /\ index \in 1..Len(settings.targetFiles)
    /\ value # settings.targetFiles[index]
    /\ saveSettings([settings EXCEPT !.targetFiles[index] = value])
    /\ UNCHANGED <<lastDoneContent, ev, latest, scanVars, histVars>>

\* targetFiles.splice(index, 1)
RemoveTargetFile(index) ==
    /\ index \in 1..Len(settings.targetFiles)
    /\ saveSettings([settings EXCEPT !.targetFiles =
           SubSeq(@, 1, index - 1) \o SubSeq(@, index + 1, Len(@))])
    /\ UNCHANGED <<lastDoneContent, ev, latest, scanVars, histVars>>

\* targetFiles.push(selectedFile.path)
AddTargetFile(path) ==
    /\ Len(settings.targetFiles) < MaxTargets
    /\ saveSettings([settings EXCEPT !.targetFiles = Append(@, path)])
    /\ UNCHANGED <<lastDoneContent, ev, latest, scanVars, histVars>>

SetCalendarName(value) ==
    /\ value # settings.calendarName
    /\ saveSettings([settings EXCEPT !.calendarName = value])
    /\ UNCHANGED <<lastDoneContent, ev, latest, scanVars, histVars>>

(***************************************************************************)
(* extractDoneSection, one step per loop iteration                         *)
(***************************************************************************)
ScanSplit ==
    /\ scanPc = "call"
    /\ lines' = split(scanContent)
    /\ scanIdx' = 1
    /\ isDoneSection' = FALSE
    /\ tasks' = <<>>
    /\ taskLine' = <<>>
    /\ scanPc' = "loop"
    /\ UNCHANGED <<scanContent, pluginVars, histVars>>

AtLine == scanPc = "loop" /\ scanIdx <= Len(lines)

\* if (line.trim() === '## Done') { isDoneSection = true; continue; }
ScanMarker ==
    /\ AtLine
    /\ IsMarkerLine(lines[scanIdx])
    /\ isDoneSection' = TRUE
    /\ scanIdx' = scanIdx + 1
    /\ UNCHANGED <<scanContent, lines, tasks, taskLine, scanPc, pluginVars,
                   histVars>>

\* if (isDoneSection && line.startsWith('## ')) break;  then  return tasks
ScanBreak ==
    /\ AtLine
    /\ ~IsMarkerLine(lines[scanIdx])
    /\ IsBreakLine(isDoneSection, lines[scanIdx])
    /\ scanPc' = "returned"
    /\ UNCHANGED <<scanContent, lines, scanIdx, isDoneSection, tasks, taskLine,
                   pluginVars, histVars>>

\* if (isDoneSection && line.includes('[[')) { ... tasks.push(...) }
ScanPush ==
    /\ AtLine
    /\ ~IsMarkerLine(lines[scanIdx])
    /\ ~IsBreakLine(isDoneSection, lines[scanIdx])
    /\ IsTaskLine(isDoneSection, lines[scanIdx])
    /\ tasks' = Append(tasks, TaskOf(lines[scanIdx]))
    /\ taskLine' = Append(taskLine, scanIdx)
    /\ scanIdx' = scanIdx + 1
    /\ UNCHANGED <<scanContent, lines, isDoneSection, scanPc, pluginVars,
                   histVars>>

ScanSkip ==
    /\ AtLine
    /\ ~IsMarkerLine(lines[scanIdx])
    /\ ~IsBreakLine(isDoneSection, lines[scanIdx])
    /\ ~IsTaskLine(isDoneSection, lines[scanIdx])
    /\ scanIdx' = scanIdx + 1
    /\ UNCHANGED <<scanContent, lines, isDoneSection, tasks, taskLine, scanPc,
                   pluginVars, histVars>>

\* the loop is exhausted: return tasks
ScanReturn ==
    /\ scanPc = "loop"
    /\ scanIdx > Len(lines)
    /\ scanPc' = "returned"
    /\ UNCHANGED <<scanContent, lines, scanIdx, isDoneSection, tasks, taskLine,
                   pluginVars, histVars>>

(***************************************************************************)
(* Initial states and specifications                                       *)
(***************************************************************************)
\* What loadData can return: nothing yet, or settings saved by an earlier run.
StoredSettings ==
    { [present |-> FALSE, data |-> DEFAULT_SETTINGS] } \cup
    { [present |-> TRUE,
       data |-> [DEFAULT_SETTINGS EXCEPT !.defaultScript = "say input",
                                         !.targetFiles = t]] :
         t \in {<<>>, <<"A.md">>} }

\* this.settings = Object.assign({}, DEFAULT_SETTINGS, await this.loadData())
loadSettings(stored) == IF stored.present THEN stored.data ELSE DEFAULT_SETTINGS

PluginInit ==
    /\ storage \in StoredSettings
    /\ settings = loadSettings(storage)
    /\ lastDoneContent = <<>>
    /\ ev = [h \in Handlers |-> IdleEvent]
    /\ latest = 0
    /\ lastRead = [f \in Paths |-> ""]

ScanIdle ==
    /\ lines = <<>>
    /\ scanIdx = 0
    /\ isDoneSection = FALSE
    /\ tasks = <<>>
    /\ taskLine = <<>>
    /\ scanPc = "call"

Init ==
    /\ PluginInit
    /\ observe = "none"
    /\ scanContent = ""
    /\ ScanIdle

Next ==
    \/ \E h \in Handlers, f \in Paths : ModifyEvent(h, f)
    \/ \E h \in Handlers, c \in VaultTexts : ReadResolve(h, c)
    \/ \E h \in Handlers : ReadReject(h)
    \/ \E h \in Handlers : RunCommand(h)
    \/ \E h \in Handlers : ExecResolve(h)
    \/ \E h \in Handlers : ExecReject(h)
    \/ \E v \in BOOLEAN : SetEnableDoneHeadingTrigger(v)
    \/ \E i \in 1..MaxTargets, v \in Paths : SetTargetFile(i, v)
    \/ \E i \in 1..MaxTargets : RemoveTargetFile(i)
    \/ \E f \in Paths : AddTargetFile(f)

Spec == Init /\ [][Next]_vars

(***************************************************************************)
(* The scripts handed to execAsync while the user edits the default script *)
(* and the calendar name; the texts and names include quote characters.    *)
(***************************************************************************)
ScriptTexts ==
    { "# Board\n- [[Buy milk]]",
      "## Done\n- [[Buy milk]]",
      "## Done\n- [[Buy milk]]\n- [[Call \"Bob\"]]" }

ScriptSources == {"say input", "display dialog \"it's\""}

ScriptCalendarNames == {"Logs", "Bob's \"Home\""}

ScriptNext ==
    \/ \E h \in Handlers, f \in Paths : ModifyEvent(h, f)
    \/ \E h \in Handlers, c \in ScriptTexts : ReadResolve(h, c)
    \/ \E h \in Handlers : RunCommand(h)
    \/ \E h \in Handlers : ExecResolve(h)
    \/ \E h \in Handlers : ExecReject(h)
    \/ \E v \in ScriptSources : SetDefaultScript(v)
    \/ \E v \in ScriptCalendarNames : SetCalendarName(v)

ScriptSpec == Init /\ [][ScriptNext]_vars

(***************************************************************************)
(* Two monitored boards, the trigger enabled, the settings left alone.     *)
(***************************************************************************)
MonitoringBoth ==
    [ present |-> TRUE,
      data    |-> [DEFAULT_SETTINGS EXCEPT !.defaultScript = "say input",
                                           !.targetFiles = <<"A.md", "B.md">>] ]

\* Variant: lastDoneContent is restored from an earlier session.
BoardInitRestored ==
    /\ storage = MonitoringBoth
    /\ settings = loadSettings(storage)
    /\ lastDoneContent = <<[title |-> "A"], [title |-> "B"]>>
    /\ ev = [h \in Handlers |-> IdleEvent]
    /\ latest = 0
    /\ lastRead = [f \in Paths |-> ""]
    /\ scanContent = ""
    /\ ScanIdle

BoardInit ==
    /\ storage = MonitoringBoth
    /\ settings = loadSettings(storage)
    /\ lastDoneContent = <<>>
    /\ ev = [h \in Handlers |-> IdleEvent]
    /\ latest = 0
    /\ lastRead = [f \in Paths |-> ""]
    /\ scanContent = ""
    /\ ScanIdle

(***************************************************************************)
(* 'modify' callbacks that overlap at their awaits                         *)
(***************************************************************************)
RaceInit == BoardInit /\ observe = "races"

RaceNext ==
    \/ \E h \in Handlers, f \in Paths : ModifyEvent(h, f)
    \/ \E h \in Handlers, c \in VaultTexts : ReadResolve(h, c)
    \/ \E h \in Handlers : ReadReject(h)
    \/ \E h \in Handlers : ExecResolve(h)
    \/ \E h \in Handlers : ExecReject(h)

RaceSpec == RaceInit /\ [][RaceNext]_vars

(***************************************************************************)
(* 'modify' events handled strictly one after the other: an event arrives  *)
(* only when no callback is in flight.  The text of the last read of each  *)
(* file is recorded.                                                       *)
(***************************************************************************)
SeqInit == BoardInit /\ observe = "reads"

SeqModifyEvent(h, f) == (\A g \in Handlers : Free(g)) /\ ModifyEvent(h, f)

SeqNext ==
    \/ \E h \in Handlers, f \in Paths : SeqModifyEvent(h, f)
    \/ \E h \in Handlers, c \in VaultTexts : ReadResolve(h, c)
    \/ \E h \in Handlers : ReadReject(h)
    \/ \E h \in Handlers : ExecResolve(h)
    \/ \E h \in Handlers : ExecReject(h)

SeqSpec == SeqInit /\ [][SeqNext]_vars

(***************************************************************************)
(* An external process that never exits.  execAsync is called without a    *)
(* timeout, so the handler in HungSlot stays at its await; every other     *)
(* await settles, and the event loop then resumes the handler behind it.   *)
(***************************************************************************)
HungSlot == 1

Exits(h) == h # HungSlot

\* Texts the reads return while the process hangs.
HangTexts ==
    { "# Board\n- [[A]]",
      "## Done\n- [[A]]",
      "## Done\n- [[A]]\n- [[B]]" }

\* Variant: a handler is resumed only while no other handler awaits its
\* external action.
ResumesInTurn(h) ==
    /\ \A g \in Handlers \ {h} : ev[g].pc # "exec"
    /\ \/ \E c \in HangTexts : ReadResolve(h, c)
       \/ ReadReject(h)
       \/ Exits(h) /\ ExecResolve(h)
       \/ Exits(h) /\ ExecReject(h)

\* The promise the handler in slot h awaits settles and the handler runs on.
Resumes(h) ==
    \/ \E c \in HangTexts : ReadResolve(h, c)
    \/ ReadReject(h)
    \/ Exits(h) /\ ExecResolve(h)
    \/ Exits(h) /\ ExecReject(h)

HangInit == BoardInit /\ observe = "races"

HangNext ==
    \/ \E h \in Handlers, f \in Paths : ModifyEvent(h, f)
    \/ \E h \in Handlers : Resumes(h)

HangSpec ==
    HangInit /\ [][HangNext]_vars /\ \A h \in Handlers : WF_vars(Resumes(h))

\* Lines the sample texts are made of.
LineSamples ==
    { "## Done", "## Done \r", "## Done!", "## done", "## Other",
      "  ## Later [[L]]", "## [[H]]", "- [[A]]", "[[A]] [[B]]",
      "- [ ] [[ C ]]\r", "[[A", "[[A\r]] [[B]]", "plain" }

RECURSIVE join(_)
join(ls) == IF Len(ls) = 1 THEN ls[1] ELSE ls[1] \o "\n" \o join(Tail(ls))

SampleTexts ==
    { join(ls) : ls \in UNION { [1..n -> LineSamples] : n \in 1..MaxLines } }

ExtractInit ==
    /\ PluginInit
    /\ ~storage.present
    /\ observe = "none"
    /\ scanContent \in SampleTexts
    /\ ScanIdle

ExtractNext ==
    \/ ScanSplit
    \/ ScanMarker
    \/ ScanBreak
    \/ ScanPush
    \/ ScanSkip
    \/ ScanReturn

ExtractSpec == ExtractInit /\ [][ExtractNext]_vars

\* The loop, step by step, returns what extractDoneSection computes.
ScanAgrees == scanPc = "returned" => tasks = extractDoneSection(scanContent)

(***************************************************************************)
(* Properties of handleFileChange (checked under Spec)                     *)
(***************************************************************************)
Last(seq) == seq[Len(seq)]

\* Exact string equality against the configured paths.
Monitored(path) ==
    path \in { settings.targetFiles[i] : i \in 1..Len(settings.targetFiles) }

\* Slot h directly followed slot g, whose handler stored the tasks `stored`.
FollowedStore(h, g, stored) ==
    /\ ev[h].pred = g
    /\ ev[g].outcome \in {"noDispatch", "dispatched"}
    /\ ev[g].doneData = stored

\* The step starts a 'modify' callback in slot h.
StartsModify(h) ==
    /\ Free(h)
    /\ ev'[h].kind = "modify"
    /\ [ev'[h] EXCEPT !.pred = 0, !.rival = 0]
         # [ev[h] EXCEPT !.pred = 0, !.rival = 0]

\* The step resumes the handler in slot h with the text of the file.
ReadSucceeds(h) == ev[h].pc = "read" /\ ev'[h].readOk

\* The step ends the handler in slot h.
Completes(h) == InFlight(h) /\ ev[h].kind = "modify" /\ ev'[h].pc = "done"

\* C1: when the read succeeds and the extracted sequence is strictly longer
\* than lastDoneContent, the event invokes the external action exactly once,
\* with title and content both the title of the last extracted task, and never
\* invokes it again.
C1_GrowthDispatchesLast ==
    [][\A h \in Handlers :
        /\ ( ReadSucceeds(h)
             /\ Len(extractDoneSection(ev'[h].content)) > Len(lastDoneContent) )
           => /\ ev'[h].pc = "exec"
              /\ Len(ev'[h].calls) = 1
              /\ ev'[h].calls[1].payload =
                   [ present |-> TRUE,
                     title   |-> Last(extractDoneSection(ev'[h].content)).title,
                     content |-> Last(extractDoneSection(ev'[h].content)).title ]
        /\ ( ev[h].pc = "exec" /\ ev[h].kind = "modify" )
           => ev'[h].calls = ev[h].calls
      ]_vars

\* From an empty state two tasks appeared at once and only "B" was dispatched.
C1_Witness ==
    \E h, g \in Handlers :
        /\ FollowedStore(h, g, <<>>)
        /\ ev[h].outcome = "dispatched"
        /\ Len(ev[h].doneData) = 2
        /\ Len(ev[h].calls) = 1
        /\ ev[h].calls[1].payload.title = "B"

\* C2: when the read succeeds and the extracted sequence is not longer than
\* lastDoneContent, no external action is invoked and the handler ends with
\* lastDoneContent equal to the extracted sequence.
C2_NoGrowthStoresOnly ==
    [][\A h \in Handlers :
        ( ReadSucceeds(h)
          /\ Len(extractDoneSection(ev'[h].content)) <= Len(lastDoneContent) )
        => /\ ev'[h].pc = "done"
           /\ ev'[h].calls = <<>>
           /\ lastDoneContent' = extractDoneSection(ev'[h].content)
      ]_vars

\* A same-length edit ([A] to [B]) and a shrinkage ([A, B] to [B]) happened.
C2_Witness ==
    \E h, g \in Handlers :
        /\ ev[h].outcome = "noDispatch"
        /\ ev[h].calls = <<>>
        /\ latest = h
        /\ lastDoneContent = <<[title |-> "B"]>>
        /\ \/ FollowedStore(h, g, <<[title |-> "A"]>>)
           \/ FollowedStore(h, g, <<[title |-> "A"], [title |-> "B"]>>)

\* Slot h handled the same file directly after slot g, with no callback in
\* between, and both reads returned the same text.
Resaved(g, h) ==
    /\ ev[h].pred = g
    /\ ev[g].kind = "modify" /\ ev[h].kind = "modify"
    /\ ev[g].readOk /\ ev[h].readOk
    /\ ev[g].file = ev[h].file
    /\ ev[g].content = ev[h].content

\* C3 as stated: the second of two runs in a row on identical content
\* extracts the same sequence and dispatches nothing.
C3_Original ==
    \A g, h \in Handlers :
        Resaved(g, h) => ev[h].doneData = ev[g].doneData /\ ev[h].calls = <<>>

\* C3, amended: ... provided the first run's external action did not fail.
C3_ResaveIdempotent ==
    \A g, h \in Handlers :
        ( Resaved(g, h) /\ ev[g].outcome # "actionError" )
        => ev[h].doneData = ev[g].doneData /\ ev[h].calls = <<>>

\* The first run dispatched, the re-save did not.
C3_Witness ==
    \E g, h \in Handlers :
        /\ Resaved(g, h)
        /\ ev[g].outcome = "dispatched"
        /\ ev[h].outcome = "noDispatch"

\* C4 as stated: when a handler whose read succeeded completes,
\* lastDoneContent is the sequence extracted from that read, also when the
\* external action failed.
C4_Original ==
    [][\A h \in Handlers :
        ( Completes(h) /\ ev'[h].readOk )
        => lastDoneContent' = extractDoneSection(ev'[h].content)
      ]_vars

\* C4, amended: ... unless the external action failed, in which case the
\* handler leaves lastDoneContent as it was.
C4_StoresUnlessActionFails ==
    [][\A h \in Handlers :
        ( Completes(h) /\ ev'[h].readOk )
        => IF ev[h].pc = "exec" /\ ev'[h].outcome = "actionError"
           THEN lastDoneContent' = lastDoneContent
           ELSE lastDoneContent' = extractDoneSection(ev'[h].content)
      ]_vars

\* One handler dispatched and stored [A]; the next one read [A, B], its
\* external action failed and [A] is still stored.
C4_Witness ==
    \E g, h \in Handlers :
        /\ FollowedStore(h, g, <<[title |-> "A"]>>)
        /\ ev[g].outcome = "dispatched"
        /\ ev[h].outcome = "actionError"
        /\ Len(ev[h].doneData) = 2
        /\ latest = h
        /\ lastDoneContent = ev[g].doneData

\* C5: when the read fails, the handler extracts nothing, invokes no external
\* action and none of its steps changes lastDoneContent.
C5_ReadFailureKeepsState ==
    [][\A h \in Handlers :
        /\ StartsModify(h) => lastDoneContent' = lastDoneContent
        /\ ( ev[h].pc = "read" /\ ev'[h].pc = "done" /\ ~ev'[h].readOk )
           => /\ lastDoneContent' = lastDoneContent
              /\ ev'[h].content = "" /\ ev'[h].doneData = <<>>
              /\ ev'[h].calls = <<>>
      ]_vars

\* A read failed right after [A, B] had been stored, and [A, B] is still there.
C5_Witness ==
    \E g, h \in Handlers :
        /\ FollowedStore(h, g, <<[title |-> "A"], [title |-> "B"]>>)
        /\ ev[h].outcome = "readError"
        /\ latest = h
        /\ lastDoneContent = ev[g].doneData

\* C6: a change event for a path that is not in settings.targetFiles reads
\* nothing, invokes no external action, raises no error and leaves
\* lastDoneContent unchanged.
C6_UnmonitoredNoOp ==
    [][\A h \in Handlers :
        ( StartsModify(h) /\ ~Monitored(ev'[h].file) )
        => /\ ev'[h].pc = "done"
           /\ ev'[h].reads = 0
           /\ ~ev'[h].readOk
           /\ ev'[h].calls = <<>>
           /\ ~ev'[h].raised
           /\ lastDoneContent' = lastDoneContent
      ]_vars

\* B.md changed while the trigger was enabled and only A.md was monitored.
C6_Witness ==
    \E g, h \in Handlers :
        /\ FollowedStore(h, g, <<[title |-> "A"]>>)
        /\ ev[h].outcome = "ignored"
        /\ ev[h].file = "B.md"
        /\ latest = h
        /\ settings.enableDoneHeadingTrigger
        /\ settings.targetFiles = <<"A.md">>
        /\ lastDoneContent = ev[g].doneData

\* C7: a failed read or a failed external action ends the handler without
\* raising and without a second read or invocation, and changes nothing but
\* the record of that event, so later events are handled as before.
C7_FailuresStayInEvent ==
    [][\A h \in Handlers :
        /\ ( ev'[h].kind = "modify" )
           => ~ev'[h].raised /\ ev'[h].reads <= 1 /\ Len(ev'[h].calls) <= 1
        /\ ( Completes(h) /\ ev'[h].outcome \in {"readError", "actionError"} )
           => /\ Free(h)'
              /\ ev'[h].reads = ev[h].reads
              /\ ev'[h].calls = ev[h].calls
              /\ settings' = settings
              /\ lastDoneContent' = lastDoneContent
              /\ \A g \in Handlers \ {h} : ev'[g] = ev[g]
      ]_vars

\* After a failed external action, swallowed by the handler, the next event
\* was dispatched normally.
C7_Witness ==
    \E g, h \in Handlers :
        /\ ev[h].pred = g
        /\ ev[g].outcome = "actionError"
        /\ ~ev[g].raised
        /\ ev[h].kind = "modify"
        /\ ev[h].outcome = "dispatched"

(***************************************************************************)
(* Properties of extractDoneSection (checked under ExtractSpec)            *)
(***************************************************************************)
Min(S) == CHOOSE x \in S : \A y \in S : x <= y

Scanning == scanPc # "call"

\* Lines whose trimmed content is exactly the marker.
MarkerLines == { i \in 1..Len(lines) : trim(lines[i]) = "## Done" }

FirstMarker == Min(MarkerLines)

\* Lines after the first marker that start with "## ".
HeadingsAfterMarker ==
    { k \in (FirstMarker + 1)..Len(lines) :
        Len(lines[k]) >= 3 /\ SubSeq(lines[k], 1, 3) = "## " }

\* ... and are not themselves a marker line.
OtherHeadingsAfterMarker == HeadingsAfterMarker \ MarkerLines

\* The scan never goes past line k, stops there, and no task comes from
\* line k or a later one.
ScanEndsAt(k) ==
    /\ scanIdx <= k
    /\ scanPc = "returned" => scanIdx = k
    /\ \A n \in 1..Len(taskLine) : taskLine[n] < k

\* C8 as stated: once inside the section, the first later line that starts
\* with "## " ends the scan, whatever its text, and neither it nor any later
\* line contributes a task.
C8_Original ==
    ( Scanning /\ MarkerLines # {} /\ HeadingsAfterMarker # {} )
    => ScanEndsAt(Min(HeadingsAfterMarker))

\* C8, amended: ... the first later line that starts with "## " and whose
\* trimmed content is not "## Done" ends the scan.
C8_OtherHeadingEndsSection ==
    ( Scanning /\ MarkerLines # {} /\ OtherHeadingsAfterMarker # {} )
    => ScanEndsAt(Min(OtherHeadingsAfterMarker))

\* The scan collected a task, stopped at a heading, and a wiki-link after
\* the heading was left out.
C8_Witness ==
    /\ scanPc = "returned"
    /\ MarkerLines # {}
    /\ OtherHeadingsAfterMarker # {}
    /\ lines = <<"## Done", "- [[A]]", "## Other", "[[A]] [[B]]">>
    /\ tasks = <<[title |-> "A"]>>
    /\ scanIdx = 3

\* C9: a text without a line whose trimmed content is exactly "## Done"
\* yields the empty sequence, whatever wiki-links it has.
C9_NoMarkerNoTasks ==
    ( Scanning /\ MarkerLines = {} ) => tasks = <<>>

\* A text with a near-marker heading and a wiki-link was scanned to the end.
C9_Witness ==
    /\ scanPc = "returned"
    /\ MarkerLines = {}
    /\ tasks = <<>>
    /\ \E i \in 1..Len(lines) : lines[i] \in {"## Done!", "## done"}
    /\ \E i \in 1..Len(lines) : titleMatch(lines[i]).found

\* Wiki-link tokens of a line: "[[" at a, a later "]]" at b.
OpensAt(line, a) == a + 1 <= Len(line) /\ SubSeq(line, a, a + 1) = "[["

Closers(line, a) ==
    { b \in (a + 2)..(Len(line) - 1) : SubSeq(line, b, b + 1) = "]]" }

\* ... with no line terminator between the brackets.
PlainClosers(line, a) ==
    { b \in Closers(line, a) :
        \A c \in (a + 2)..(b - 1) : CharAt(line, c) \notin {"\r", "\n"} }

TokenStarts(line) ==
    { a \in 1..Len(line) : OpensAt(line, a) /\ Closers(line, a) # {} }

PlainTokenStarts(line) ==
    { a \in 1..Len(line) : OpensAt(line, a) /\ PlainClosers(line, a) # {} }

FirstTokenTitle(line) ==
    LET a == Min(TokenStarts(line))
        b == Min(Closers(line, a))
    IN  trim(SubSeq(line, a + 2, b - 1))

FirstPlainTokenTitle(line) ==
    LET a == Min(PlainTokenStarts(line))
        b == Min(PlainClosers(line, a))
    IN  trim(SubSeq(line, a + 2, b - 1))

\* The lines of the Done section: after the first marker, up to the next
\* line in `ends` or the end of the text.
SectionUpTo(ends) ==
    IF MarkerLines = {} THEN {}
    ELSE IF ends = {} THEN (FirstMarker + 1)..Len(lines)
    ELSE (FirstMarker + 1)..(Min(ends) - 1)

\* tasks holds, in document order, one record for each line of `from`.
OneTaskPerLine(from) ==
    /\ Len(tasks) = Cardinality(from)
    /\ { taskLine[n] : n \in 1..Len(taskLine) } = from
    /\ \A n \in 1..(Len(taskLine) - 1) : taskLine[n] < taskLine[n + 1]

\* C10 as stated: the result holds, in document order, one record for each
\* line of the Done section (up to the next "## " line) that has a complete
\* wiki-link, titled with the trimmed text of the first one.
C10_Original ==
    scanPc = "returned" =>
        /\ OneTaskPerLine({ j \in SectionUpTo(HeadingsAfterMarker) :
                              TokenStarts(lines[j]) # {} })
        /\ \A n \in 1..Len(tasks) :
              tasks[n].title = FirstTokenTitle(lines[taskLine[n]])

\* C10, amended: the section runs up to the next "## " line that is not
\* itself a "## Done" line, and a wiki-link counts only when no line
\* terminator stands between its brackets.
C10_OrderedOnePerLine ==
    scanPc = "returned" =>
        /\ OneTaskPerLine({ j \in SectionUpTo(OtherHeadingsAfterMarker) :
                              PlainTokenStarts(lines[j]) # {} })
        /\ \A n \in 1..Len(tasks) :
              tasks[n].title = FirstPlainTokenTitle(lines[taskLine[n]])

\* "## Done", then a line with two wiki-links, then a plain wiki-link line:
\* two records, the first titled by the first link of its line.
C10_Witness ==
    /\ scanPc = "returned"
    /\ lines = <<"## Done", "[[A]] [[B]]", "- [ ] [[ C ]]\r">>
    /\ tasks = <<[title |-> "A"], [title |-> "C"]>>

(***************************************************************************)
(* C11: script composition                                                 *)
(***************************************************************************)
\* The slot h hands a script to execAsync in this step.
CallsExec(h) == ev[h].pc # "exec" /\ ev'[h].pc = "exec"

\* The text C11 gives for a call with a payload.
InputStatement(label, title, content) ==
    "set input to {calendarName:\"" \o label \o "\", summary:\"" \o title
        \o "\", description:\"" \o content \o "\"}"

\* C11: whenever a script is handed to execAsync, it is, for a call with a
\* payload, the statement 'set input to {calendarName:"<label>",
\* summary:"<title>", description:"<content>"}' with the calendar name and
\* the payload's title and content inserted as they are, then one newline,
\* then the default script unchanged; for a call without a payload it is
\* the default script alone.  The command line wraps that script in
\* osascript -e '...'.
C11_ScriptComposition ==
    [][ \A h \in Handlers :
          CallsExec(h) =>
            LET call == Last(ev'[h].calls)
            IN  /\ call.script =
                     IF call.payload.present
                     THEN InputStatement(settings.calendarName,
                                         call.payload.title,
                                         call.payload.content)
                            \o "\n" \o settings.defaultScript
                     ELSE settings.defaultScript
                /\ call.command = "osascript -e '" \o call.script \o "'" ]_vars

\* One callback dispatched "Buy milk" under the label "Logs" with the script
\* "say input" while the manual command ran the same script bare.
C11_Witness ==
    \E h, g \in Handlers :
        /\ ev[h].kind = "modify" /\ ev[h].calls # <<>>
        /\ ev[h].calls[1].script =
             "set input to {calendarName:\"Logs\", summary:\"Buy milk\", description:\"Buy milk\"}\nsay input"
        /\ ev[g].kind = "command"
        /\ ev[g].calls[1].script = "say input"

(***************************************************************************)
(* C12: the manual command                                                 *)
(***************************************************************************)
\* The step starts the command callback in slot h.
StartsCommand(h) == Free(h) /\ ev'[h].kind = "command" /\ ev'[h].pc = "exec"

\* The step settles the command callback in slot h.
SettlesCommand(h) ==
    ev[h].kind = "command" /\ ev[h].pc = "exec" /\ ev'[h].pc = "done"

\* C12: the command can be invoked in a free slot whatever the trigger
\* setting is; invoking it hands the default script to execAsync once, with
\* no payload, reads no file and leaves lastDoneContent as it was, also when
\* it settles; a failure of the external action reaches the command's caller,
\* while a failure inside a 'modify' callback never does.
C12_CommandIndependent ==
    [][\A h \in Handlers :
        /\ Free(h) => ENABLED RunCommand(h)
        /\ StartsCommand(h)
           => /\ ev'[h].calls = << [ payload |-> NoPayload,
                                     script  |-> settings.defaultScript,
                                     command |-> "osascript -e '"
                                        \o settings.defaultScript \o "'" ] >>
              /\ ev'[h].reads = 0
              /\ lastDoneContent' = lastDoneContent
        /\ SettlesCommand(h)
           => /\ ev'[h].calls = ev[h].calls
              /\ ev'[h].reads = 0
              /\ lastDoneContent' = lastDoneContent
              /\ ev'[h].raised <=> ev'[h].outcome = "commandError"
        /\ ev'[h].kind = "modify" => ~ev'[h].raised
      ]_vars

\* With the trigger disabled and a non-empty lastDoneContent, the command
\* ran, its external action failed, and the failure reached the caller.
C12_Witness ==
    \E h \in Handlers :
        /\ ~settings.enableDoneHeadingTrigger
        /\ lastDoneContent # <<>>
        /\ ev[h].kind = "command"
        /\ ev[h].outcome = "commandError"
        /\ ev[h].raised
        /\ ev[h].reads = 0
        /\ ev[h].pred # 0
        /\ ev[ev[h].pred].outcome = "disabled"

(***************************************************************************)
(* C13: overlapping handlers dispatch one growth twice                     *)
(***************************************************************************)
\* Both slots hold a 'modify' callback that read the same text of the same
\* file and handed a script to execAsync.
DispatchedTwice(g, h) ==
    /\ g # h
    /\ ev[g].kind = "modify" /\ ev[h].kind = "modify"
    /\ ev[g].readOk /\ ev[h].readOk
    /\ ev[g].file = ev[h].file
    /\ ev[g].content = ev[h].content
    /\ ev[g].calls # <<>> /\ ev[h].calls # <<>>

\* The read of slot h resolved while slot g awaited its external action.
Overlapped(g, h) == ev[h].rival = g

\* C13 as stated, its sequential half: two handlers that ran one directly
\* after the other on the same text never both invoke the external action.
C13_Original ==
    \A g, h \in Handlers : ev[h].pred = g => ~DispatchedTwice(g, h)

\* C13, amended: a handler that reads the same text while another awaits its
\* external action, and compares against the same lastDoneContent, invokes
\* the external action for the same task a second time; two handlers run one
\* directly after the other never do, provided the first one's external
\* action did not fail.
C13_OverlapDispatchesTwice ==
    \A g, h \in Handlers :
        /\ ( /\ Overlapped(g, h)
              /\ ev[g].file = ev[h].file
              /\ ev[g].content = ev[h].content
              /\ ev[g].seen = ev[h].seen )
           => ev[h].calls = ev[g].calls /\ DispatchedTwice(g, h)
        /\ ( ev[h].pred = g /\ ev[g].outcome # "actionError" )
           => ~DispatchedTwice(g, h)

\* Both handlers read the same one-task text, the second while the first
\* awaited its action; both invoked the action for the same task and both
\* actions succeeded.
C13_Witness ==
    \E g, h \in Handlers :
        /\ DispatchedTwice(g, h)
        /\ Overlapped(g, h)
        /\ Len(ev[g].doneData) = 1
        /\ ev[g].calls = ev[h].calls
        /\ ev[g].outcome = "dispatched" /\ ev[h].outcome = "dispatched"

(***************************************************************************)
(* C14: overlapping handlers lose an update                                *)
(***************************************************************************)
\* C14: when slot h read while slot g awaited its external action (g read
\* first) and g's action succeeds last, lastDoneContent is what g extracted
\* from the earlier read, whatever h extracted from the later one.
C14_EarlierReadWins ==
    \A g, h \in Handlers :
        ( /\ Overlapped(g, h)
          /\ ev[g].outcome = "dispatched"
          /\ ev[h].pc = "done"
          /\ latest = g )
        => lastDoneContent = ev[g].doneData

\* The later read of the same file saw two tasks, the earlier one task; both
\* handlers stored, and the one-task sequence is what is left.
C14_Witness ==
    \E g, h \in Handlers :
        /\ Overlapped(g, h)
        /\ ev[g].file = ev[h].file
        /\ ev[g].outcome = "dispatched"
        /\ ev[h].outcome \in {"noDispatch", "dispatched"}
        /\ latest = g
        /\ Len(ev[g].doneData) = 1 /\ Len(ev[h].doneData) = 2
        /\ lastDoneContent = ev[g].doneData
        /\ lastDoneContent # ev[h].doneData

(***************************************************************************)
(* C15: a hung external script                                             *)
(***************************************************************************)
\* C15: while the external process of the handler in HungSlot does not
\* exit, that handler stays at its await, makes no further read or call and
\* lastDoneContent changes only when another handler completes; every
\* handler in another slot, and every handler still at its read, is
\* eventually resumed and runs to completion (or to its own external action).
C15_HungDoesNotBlock ==
    /\ [][ ev[HungSlot].pc = "exec"
            => /\ ev'[HungSlot].pc = "exec"
               /\ ev'[HungSlot].calls = ev[HungSlot].calls
               /\ ev'[HungSlot].reads = ev[HungSlot].reads
               /\ lastDoneContent' # lastDoneContent
                  => \E h \in Handlers \ {HungSlot} : Completes(h) ]_vars
    /\ \A h \in Handlers \ {HungSlot} : InFlight(h) ~> ev[h].pc = "done"
    /\ ev[HungSlot].pc = "read" ~> ev[HungSlot].pc \in {"exec", "done"}

\* The handler in HungSlot is still at its await; another handler read
\* while it hung, dispatched and completed.
C15_Witness ==
    \E h \in Handlers \ {HungSlot} :
        /\ ev[HungSlot].pc = "exec"
        /\ ev[h].rival = HungSlot
        /\ ev[h].outcome = "dispatched"
        /\ lastDoneContent = ev[h].doneData

(***************************************************************************)
(* C16: two monitored files share lastDoneContent                          *)
(***************************************************************************)
\* Slot h handled an event directly after slot g handled one on the other
\* monitored file, and both reads succeeded.
CrossPair(g, h) ==
    /\ ev[h].pred = g
    /\ ev[g].kind = "modify" /\ ev[h].kind = "modify"
    /\ ev[g].readOk /\ ev[h].readOk
    /\ ev[g].file # ev[h].file

\* The handler in slot h dispatched its last task, or nothing.
DispatchedLastIff(h, grew) ==
    IF grew
    THEN ev[h].calls = <<execCall(settings.defaultScript,
                                  payloadOf(Last(ev[h].doneData)))>>
    ELSE ev[h].calls = <<>>

\* C16 as stated: an event on one monitored file directly after an event on
\* the other dispatches exactly when its parse is longer than the parse of
\* that other file's event.
C16_Original ==
    \A g, h \in Handlers :
        CrossPair(g, h)
        => DispatchedLastIff(h, Len(ev[h].doneData) > Len(ev[g].doneData))

\* C16, amended: ... provided the other file's event did not end in a failed
\* external action (which leaves lastDoneContent as it was before).  So
\* re-saving unchanged A after a shorter B dispatches, and a longer A after a
\* B at least as long does not.
C16_CrossFileComparison ==
    \A g, h \in Handlers :
        ( CrossPair(g, h) /\ ev[g].outcome # "actionError" )
        => DispatchedLastIff(h, Len(ev[h].doneData) > Len(ev[g].doneData))

\* (i) A's text is the one its previous read returned, the event on B in
\* between parsed a shorter section, and A's last task was dispatched again.
C16_Witness ==
    \E g, h \in Handlers :
        /\ CrossPair(g, h)
        /\ ev[g].outcome = "noDispatch"
        /\ ev[h].prevText = ev[h].content
        /\ Len(ev[g].doneData) = 1 /\ Len(ev[h].doneData) = 2
        /\ ev[h].outcome = "dispatched"
        /\ ev[h].calls[1].payload.title = "B"

(***************************************************************************)
(* C17: a text without a Done section resets lastDoneContent               *)
(***************************************************************************)
\* No line of the text is a "## Done" line.
NoDoneSection(content) ==
    \A i \in 1..Len(split(content)) : ~IsMarkerLine(split(content)[i])

\* Slot h handled an event directly after slot g completed one whose text
\* had no Done section.
AfterAbsence(g, h) ==
    /\ ev[h].pred = g
    /\ ev[g].kind = "modify" /\ ev[g].readOk /\ NoDoneSection(ev[g].content)
    /\ ev[h].kind = "modify" /\ ev[h].readOk

\* C17: a handler that reads a text without a Done section ends without a
\* call and leaves lastDoneContent empty; the event handled directly after
\* it dispatches the last task of its parse whenever that parse has at
\* least one entry.
C17_AbsenceResets ==
    \A g, h \in Handlers :
        /\ ( ev[g].kind = "modify" /\ ev[g].readOk
              /\ NoDoneSection(ev[g].content) )
           => /\ ev[g].outcome = "noDispatch"
              /\ ev[g].calls = <<>>
              /\ latest = g => lastDoneContent = <<>>
        /\ AfterAbsence(g, h)
           => DispatchedLastIff(h, Len(ev[h].doneData) >= 1)

\* The file read with a task, then without a Done section, then with the
\* same text as at first: the task is dispatched again.
C17_Witness ==
    \E g, h \in Handlers :
        /\ AfterAbsence(g, h)
        /\ ev[g].file = ev[h].file
        /\ ev[g].prevText = ev[h].content
        /\ ev[h].prevText = ev[g].content
        /\ ev[h].outcome = "dispatched"
        /\ ev[h].calls[1].payload.title = "A"

(***************************************************************************)
(* C18: a disabled trigger freezes lastDoneContent                         *)
(***************************************************************************)
\* The handler in slot h directly followed an event that was dropped
\* because the trigger was disabled.
FollowsDisabled(h) == ev[h].pred # 0 /\ ev[ev[h].pred].outcome = "disabled"

\* C18: a 'modify' event that arrives while enableDoneHeadingTrigger is
\* false ends at once, without a read, without a call and with
\* lastDoneContent unchanged, whatever the file; switching the trigger
\* leaves lastDoneContent unchanged too; and the event handled directly
\* after a dropped one dispatches exactly when its parse is longer than the
\* lastDoneContent that was kept.
C18_DisabledFreezes ==
    [][\A h \in Handlers :
        /\ ( StartsModify(h) /\ ~settings.enableDoneHeadingTrigger )
           => /\ ev'[h].pc = "done"
              /\ ev'[h].outcome = "disabled"
              /\ ev'[h].reads = 0
              /\ ev'[h].calls = <<>>
              /\ lastDoneContent' = lastDoneContent
        /\ settings' # settings => lastDoneContent' = lastDoneContent
        /\ ( ReadSucceeds(h) /\ FollowsDisabled(h) )
           => ( ev'[h].pc = "exec"
                  <=> Len(ev'[h].doneData) > Len(lastDoneContent) )
      ]_vars

\* An event on the monitored file was dropped while the trigger was off; the
\* next one, with the trigger on again, read one task and dispatched nothing
\* because the one-task sequence stored earlier was still there.
C18_Witness ==
    \E h \in Handlers :
        /\ FollowsDisabled(h)
        /\ ev[h].kind = "modify"
        /\ ev[ev[h].pred].file = ev[h].file
        /\ ev[h].outcome = "noDispatch"
        /\ Len(ev[h].doneData) = 1
        /\ lastDoneContent = ev[h].doneData

(***************************************************************************)
(* C19: the first observation dispatches                                   *)
(***************************************************************************)
\* No read has resolved since the plugin was loaded.
NothingReadYet == \A f \in Paths : lastRead[f] = ""

\* C19: lastDoneContent is empty until the first read resolves; the handler
\* of that read invokes the external action with the last task of its parse
\* when the parse has at least one entry, and invokes nothing when the
\* parse is empty.
C19_FirstObservationDispatches ==
    [][\A h \in Handlers :
        /\ NothingReadYet => lastDoneContent = <<>>
        /\ ( ReadSucceeds(h) /\ NothingReadYet )
           => IF Len(extractDoneSection(ev'[h].content)) >= 1
              THEN /\ ev'[h].pc = "exec"
                   /\ ev'[h].calls =
                        <<execCall(settings.defaultScript,
                             payloadOf(Last(extractDoneSection(ev'[h].content))))>>
              ELSE /\ ev'[h].pc = "done"
                   /\ ev'[h].calls = <<>>
      ]_vars

\* The only read so far returned a Done section with two tasks, and the
\* second was dispatched.
C19_Witness ==
    \E h \in Handlers :
        /\ ev[h].kind = "modify" /\ ev[h].readOk
        /\ ev[h].prevText = ""
        /\ \A f \in Paths : lastRead[f] = IF f = ev[h].file THEN ev[h].content ELSE ""
        /\ \A g \in Handlers \ {h} : ~ev[g].readOk
        /\ Len(ev[h].doneData) = 2
        /\ ev[h].outcome = "dispatched"
        /\ ev[h].calls[1].payload.title = "B"

====
